---------------------------- MODULE Spec2Model ----------------------------
(***************************************************************************)
(* Model of the fixed-wing PID autotune engine, src/main/flight/           *)
(* pid_autotune.c: the session controller (autotuneUpdateState), the       *)
(* commit scheduler (autotuneCheckUpdateGains), gain application           *)
(* (autotuneUpdateGains) and the per-axis law (autotuneFixedWingUpdate).   *)
(***************************************************************************)
EXTENDS Integers, Sequences, FiniteSets, TLC

(***************************************************************************)
(* Single-precision arithmetic.  A C float that is zero or positive and    *)
(* normal is the record [m, e] standing for m * 2^e with                   *)
(* 2^23 <= m < 2^24 (zero is [m |-> 0, e |-> 0]).  Every float the code    *)
(* computes is non-negative: gains are seeded from unsigned controller     *)
(* gains and only multiplied/divided by positive numbers, and rates go     *)
(* through fabsf.  Operations round to nearest, ties to even, as the FPU   *)
(* does in its default mode.  All intermediate integers stay below 2^31.   *)
(* The arithmetic is written as functions, whose arguments are values.     *)
(***************************************************************************)
TwoTo23 == 2^23
TwoTo24 == 2^24

FZero == [m |-> 0, e |-> 0]

\* the floats of the model
FloatSet == [m : Nat, e : Int]

Min(a, b) == IF a < b THEN a ELSE b

\* n / d rounded to the nearest integer, ties to the even one (d > 0, 2 * d < 2^31)
RoundNearestEven[n \in Nat, d \in Nat] ==
    LET q == n \div d
        r == n % d
    IN  IF 2 * r < d THEN q
        ELSE IF 2 * r > d THEN q + 1
        ELSE IF q % 2 = 0 THEN q ELSE q + 1

\* m * 2^e with m shifted up by k bits when that keeps it below 2^24
ShiftUp[f \in FloatSet, k \in Nat] ==
    IF f.m < 2^(24 - k) THEN [m |-> f.m * 2^k, e |-> f.e - k] ELSE f

\* the float m * 2^e for an integer 0 <= m <= 2^24 (the carry out of a rounding included)
FNorm[m \in Nat, e \in Int] ==
    IF m = 0 THEN FZero
    ELSE IF m >= TwoTo24 THEN [m |-> m \div 2, e |-> e + 1]
    ELSE IF m >= TwoTo23 THEN [m |-> m, e |-> e]
    ELSE ShiftUp[ShiftUp[ShiftUp[ShiftUp[ShiftUp[[m |-> m, e |-> e], 16], 8], 4], 2], 1]

\* (float) n for an integer 0 <= n < 2^24: exact
IntToFloat(n) == FNorm[n, 0]

\* a < b
FLess(a, b) ==
    IF b.m = 0 THEN FALSE
    ELSE IF a.m = 0 THEN TRUE
    ELSE a.e < b.e \/ (a.e = b.e /\ a.m < b.m)

FLessEq(a, b) == ~FLess(b, a)

\* the 48-bit product a * b of two mantissas as [h, l], a * b = h * 2^24 + l
MulHL[a \in Nat, b \in Nat] ==
    LET a1 == a \div 4096
        a0 == a % 4096
        b1 == b \div 4096
        b0 == b % 4096
        mid == a1 * b0 + a0 * b1
        low == (mid % 4096) * 4096 + a0 * b0
    IN  [h |-> a1 * b1 + mid \div 4096 + low \div TwoTo24, l |-> low % TwoTo24]

\* m with the discarded part rem (out of 2 * half) rounded in, ties to even
RoundIn(m, rem, half) ==
    IF rem > half \/ (rem = half /\ m % 2 = 1) THEN m + 1 ELSE m

\* a 48-bit product as its high and low 24 bits; a quotient with its remainder
HighLow == [h : Nat, l : Nat]
QuotRem == [q : Nat, r : Nat]

\* the float of the 48-bit product p = [h, l] of two mantissas, scaled by 2^e
RoundProduct[p \in HighLow, e \in Int] ==
    IF p.h >= TwoTo23
    THEN FNorm[RoundIn(p.h, p.l, TwoTo23), e + 24]
    ELSE FNorm[RoundIn(2 * p.h + p.l \div TwoTo23, p.l % TwoTo23, 2^22), e + 23]

\* a * b
FMulOf[a \in FloatSet, b \in FloatSet] ==
    IF a.m = 0 \/ b.m = 0 THEN FZero ELSE RoundProduct[MulHL[a.m, b.m], a.e + b.e]

FMul(a, b) == FMulOf[a, b]

\* floor((q * d + r) * 2^k / d) and the remainder, by long division, 7 bits a step
LongDiv[q \in Nat, r \in Nat, d \in Nat, k \in Nat] ==
    IF k = 0 THEN [q |-> q, r |-> r]
    ELSE LongDiv[q * 2^Min(k, 7) + (r * 2^Min(k, 7)) \div d,
                 (r * 2^Min(k, 7)) % d, d, k - Min(k, 7)]

\* the float of the quotient qr = [q, r] of a division by d, scaled by 2^e
RoundQuotient[qr \in QuotRem, d \in Nat, e \in Int] ==
    FNorm[IF 2 * qr.r > d \/ (2 * qr.r = d /\ qr.q % 2 = 1) THEN qr.q + 1 ELSE qr.q, e]

\* a / b (b > 0)
FDivOf[a \in FloatSet, b \in FloatSet] ==
    IF a.m = 0 THEN FZero
    ELSE IF a.m >= b.m
         THEN RoundQuotient[LongDiv[a.m \div b.m, a.m % b.m, b.m, 23], b.m, a.e - b.e - 23]
         ELSE RoundQuotient[LongDiv[a.m \div b.m, a.m % b.m, b.m, 24], b.m, a.e - b.e - 24]

FDiv(a, b) == FDivOf[a, b]

\* lrintf(f): f rounded to the nearest integer, ties to even (f < 2^24)
lrintfOf[f \in FloatSet] ==
    IF f.m = 0 THEN 0
    ELSE IF f.e >= 0 THEN f.m * 2^f.e
    ELSE IF f.e < -25 THEN 0
    ELSE RoundNearestEven[f.m, 2^(0 - f.e)]

lrintf(f) == lrintfOf[f]

\* constrainf(f, lo, hi)
constrainfOf[f \in FloatSet, lo \in FloatSet, hi \in FloatSet] ==
    IF FLess(f, lo) THEN lo ELSE IF FLess(hi, f) THEN hi ELSE f

constrainf(f, lo, hi) == constrainfOf[f, lo, hi]

(***************************************************************************)
(* Types and constants of pid_autotune.c.                                  *)
(***************************************************************************)
\* pidAutotuneState_e
DEMAND_TOO_LOW == "DEMAND_TOO_LOW"
DEMAND_UNDERSHOOT == "DEMAND_UNDERSHOOT"
DEMAND_OVERSHOOT == "DEMAND_OVERSHOOT"
pidAutotuneState_e == {DEMAND_TOO_LOW, DEMAND_UNDERSHOOT, DEMAND_OVERSHOOT}

\* flight_dynamics_index_t, the XYZ_AXIS_COUNT axes the loops run over
FD_ROLL == "FD_ROLL"
FD_PITCH == "FD_PITCH"
FD_YAW == "FD_YAW"
Axes == {FD_ROLL, FD_PITCH, FD_YAW}

AUTOTUNE_SAVE_PERIOD == 5000
AUTOTUNE_FIXED_WING_OVERSHOOT_TIME == 100
AUTOTUNE_FIXED_WING_UNDERSHOOT_TIME == 200
AUTOTUNE_FIXED_WING_DECREASE_STEP == 8
AUTOTUNE_FIXED_WING_INCREASE_STEP == 5
AUTOTUNE_FIXED_WING_MIN_FF == 10
AUTOTUNE_FIXED_WING_MAX_FF == 200

\* the multipliers of flight/pid.h that line 197 and line 145 use
FP_PID_RATE_FF_MULTIPLIER == 31
FP_PID_RATE_I_MULTIPLIER == 4
FP_PID_LEVEL_P_MULTIPLIER == FDiv(IntToFloat(656), IntToFloat(100))

\* the configuration the per-axis law reads: currentControlRateProfile->rates[axis]
\* (tens of deg/s), pidProfile()->max_angle_inclination[axis] (decidegrees),
\* pidBank()->pid[PID_LEVEL].P and pidProfile()->pidSumLimit
rates == 15
max_angle_inclination == 300
PID_LEVEL_P == 20
pidSumLimit == 500

(***************************************************************************)
(* The millisecond clock.  timeMs_t and timeDelta_t are declared outside   *)
(* pid_autotune.c; the specification describes the clock as a wrapping     *)
(* millisecond counter and the differences as unsigned subtractions, so a  *)
(* reading is an unsigned integer of ClockBits bits and a difference of    *)
(* two readings is taken modulo 2^ClockBits.                               *)
(***************************************************************************)
ClockBits == 14
ClockModulus == 2^ClockBits

\* a - b in timeMs_t
TimeSub(a, b) == (a - b) % ClockModulus

(***************************************************************************)
(* State.                                                                  *)
(***************************************************************************)
VARIABLES
    millis,               \* the reading millis() returns
    AUTO_TUNE,            \* FLIGHT_MODE(AUTO_TUNE)
    tuneCurrent,          \* static pidAutotuneData_t tuneCurrent[XYZ_AXIS_COUNT]
    tuneSaved,            \* static pidAutotuneData_t tuneSaved[XYZ_AXIS_COUNT]
    lastGainsUpdateTime,  \* static timeMs_t lastGainsUpdateTime
    pidBank,              \* pidBankMutable()->pid[axis], the live controller gains
    \* history, observed and never read by the program:
    uptime,               \* the true time since Init, not wrapped
    enterUptime,          \* per axis, uptime when stateEnterTime was last written
    commitUptime,         \* uptime when lastGainsUpdateTime was last written
    sinceCall,            \* the true time since the latest autotuneUpdateState call
    snapshot,             \* tuneCurrent as it was right after the latest start or commit
    seedBank,             \* pidBank as it was at the latest session start
    spent,                \* how many clock advances and per-axis calls the run has made,
                          \* and how many commits the latest session
    last                  \* the latest operation and what it observed

prog == <<millis, AUTO_TUNE, tuneCurrent, tuneSaved, lastGainsUpdateTime, pidBank>>
hist == <<uptime, enterUptime, commitUptime, sinceCall, snapshot, seedBank, spent, last>>
vars == <<prog, hist>>

\* a zero-initialised pidAutotuneData_t (static storage)
ZeroData ==
    [state |-> DEMAND_TOO_LOW, stateEnterTime |-> 0, pidSaturated |-> FALSE,
     gainP |-> FZero, gainI |-> FZero, gainD |-> FZero]

\* pid8_t values the live controller may hold before autotune is ever engaged
Pid(p, i, d) == [P |-> p, I |-> i, D |-> d]
SeedBanks ==
    { (FD_ROLL :> Pid(5, 7, 50)) @@ (FD_PITCH :> Pid(5, 7, 10)) @@ (FD_YAW :> Pid(6, 10, 60)),
      (FD_ROLL :> Pid(20, 30, 197)) @@ (FD_PITCH :> Pid(1, 0, 5)) @@ (FD_YAW :> Pid(9, 60, 200)) }

(***************************************************************************)
(* Gain Application and the Commit Scheduler.                              *)
(***************************************************************************)
\* (int) f, the conversion that drops the fraction (f < 2^24)
Truncated(f) ==
    IF f.m = 0 THEN 0
    ELSE IF f.e >= 0 THEN f.m * 2^f.e
    ELSE IF f.e < -25 THEN 0
    ELSE f.m \div 2^(0 - f.e)

\* mutant of autotuneUpdateGains: the gains are converted by assignment, without lrintf
autotuneUpdateGainsTruncating(data) ==
    [axis \in Axes |->
        [P |-> Truncated(data[axis].gainP),
         I |-> Truncated(data[axis].gainI),
         D |-> Truncated(data[axis].gainD)]]

\* autotuneUpdateGains(data): the live gains it leaves in pidBankMutable()
autotuneUpdateGains(data) ==
    [axis \in Axes |->
        [P |-> lrintf(data[axis].gainP),
         I |-> lrintf(data[axis].gainI),
         D |-> lrintf(data[axis].gainD)]]

\* mutant of SaveIsDue: the period test with the operands swapped
SaveIsDueSwapped(currentTimeMs, lastUpdate) ==
    ~(TimeSub(lastUpdate, currentTimeMs) < AUTOTUNE_SAVE_PERIOD)

\* the early return of autotuneCheckUpdateGains is NOT taken
SaveIsDue(currentTimeMs, lastUpdate) ==
    ~(TimeSub(currentTimeMs, lastUpdate) < AUTOTUNE_SAVE_PERIOD)

\* mutant of MemcpySaved: the size of one element, so only the first axis is copied
MemcpyOneAxis(saved, current) == [saved EXCEPT ![FD_ROLL] = current[FD_ROLL]]

\* memcpy(tuneSaved, tuneCurrent, sizeof(pidAutotuneData_t) * XYZ_AXIS_COUNT)
MemcpySaved(saved, current) == current

autotuneCheckUpdateGains ==
    LET currentTimeMs == millis
    IN  IF SaveIsDue(currentTimeMs, lastGainsUpdateTime)
        THEN /\ tuneSaved' = MemcpySaved(tuneSaved, tuneCurrent)
             /\ pidBank' = autotuneUpdateGains(tuneSaved')
             /\ lastGainsUpdateTime' = currentTimeMs
             /\ UNCHANGED tuneCurrent
        ELSE UNCHANGED <<tuneCurrent, tuneSaved, pidBank, lastGainsUpdateTime>>

(***************************************************************************)
(* The Session Controller.                                                 *)
(***************************************************************************)
\* mutant of StartAxis: the I gain is seeded from the P gain
StartAxisWrongField(pid, now) ==
    [state |-> DEMAND_TOO_LOW, stateEnterTime |-> now, pidSaturated |-> FALSE,
     gainP |-> IntToFloat(pid.P), gainI |-> IntToFloat(pid.P), gainD |-> IntToFloat(pid.D)]

\* the loop body of autotuneStart for one axis
StartAxis(pid, now) ==
    [state |-> DEMAND_TOO_LOW, stateEnterTime |-> now, pidSaturated |-> FALSE,
     gainP |-> IntToFloat(pid.P), gainI |-> IntToFloat(pid.I), gainD |-> IntToFloat(pid.D)]

\* mutant of autotuneStart: lastGainsUpdateTime is not set
autotuneStartNoStamp ==
    /\ tuneCurrent' = [axis \in Axes |-> StartAxis(pidBank[axis], millis)]
    /\ tuneSaved' = MemcpySaved(tuneSaved, tuneCurrent')
    /\ UNCHANGED <<lastGainsUpdateTime, pidBank>>

\* mutant of autotuneStart: tuneSaved is not seeded
autotuneStartNoSave ==
    /\ tuneCurrent' = [axis \in Axes |-> StartAxis(pidBank[axis], millis)]
    /\ lastGainsUpdateTime' = millis
    /\ UNCHANGED <<tuneSaved, pidBank>>

autotuneStart ==
    /\ tuneCurrent' = [axis \in Axes |-> StartAxis(pidBank[axis], millis)]
    /\ tuneSaved' = MemcpySaved(tuneSaved, tuneCurrent')
    /\ lastGainsUpdateTime' = millis
    /\ UNCHANGED pidBank

\* mutant of AbortGains: the abort applies the working gains
AbortGainsCurrent(active, saved, current, bank) ==
    IF active THEN autotuneUpdateGains(current) ELSE bank

\* the gains the else branch of autotuneUpdateState leaves in the live controller
AbortGains(active, saved, current, bank) ==
    IF active THEN autotuneUpdateGains(saved) ELSE bank

\* autotuneUpdateState with IS_RC_MODE_ACTIVE(BOXAUTOTUNE) = box, ARMING_FLAG(ARMED) = armed
autotuneUpdateState(box, armed) ==
    IF box /\ armed
    THEN IF ~AUTO_TUNE
         THEN autotuneStart /\ AUTO_TUNE' = TRUE
         ELSE autotuneCheckUpdateGains /\ UNCHANGED AUTO_TUNE
    ELSE /\ pidBank' = AbortGains(AUTO_TUNE, tuneSaved, tuneCurrent, pidBank)
         /\ AUTO_TUNE' = FALSE
         /\ UNCHANGED <<tuneCurrent, tuneSaved, lastGainsUpdateTime>>

(***************************************************************************)
(* The Per-Axis Tuning Law (fixed wing).                                   *)
(***************************************************************************)
Abs(x) == IF x < 0 THEN 0 - x ELSE x

\* maxDesiredRate after lines 139-147
maxDesiredRate(axis) ==
    LET configured == FMul(IntToFloat(rates), IntToFloat(10))
        degrees == FDiv(IntToFloat(max_angle_inclination), IntToFloat(10))
        maxDesiredRateInAngleMode ==
            FDiv(FMul(degrees, IntToFloat(PID_LEVEL_P)), FP_PID_LEVEL_P_MULTIPLIER)
    IN  IF axis = FD_PITCH \/ axis = FD_ROLL
        THEN (IF FLess(configured, maxDesiredRateInAngleMode)
              THEN configured ELSE maxDesiredRateInAngleMode)
        ELSE configured

\* mutant of Classify: the demand is compared with 0.5f of the maximum rate
ClassifyHalfRate(axis, desiredRateDps, reachedRateDps) ==
    LET absDesiredRateDps == IntToFloat(Abs(desiredRateDps))
        threshold == FMul(FDiv(IntToFloat(1), IntToFloat(2)), maxDesiredRate(axis))
    IN  IF FLess(absDesiredRateDps, threshold) THEN DEMAND_TOO_LOW
        ELSE IF FLess(absDesiredRateDps, IntToFloat(Abs(reachedRateDps)))
             THEN DEMAND_OVERSHOOT
        ELSE DEMAND_UNDERSHOOT

\* newState of lines 154-163; the rates are whole deg/s
Classify(axis, desiredRateDps, reachedRateDps) ==
    LET absDesiredRateDps == IntToFloat(Abs(desiredRateDps))
        threshold == FMul(FDiv(IntToFloat(3), IntToFloat(4)), maxDesiredRate(axis))
    IN  IF FLess(absDesiredRateDps, threshold) THEN DEMAND_TOO_LOW
        ELSE IF FLess(absDesiredRateDps, IntToFloat(Abs(reachedRateDps)))
             THEN DEMAND_OVERSHOOT
        ELSE DEMAND_UNDERSHOOT

\* fabsf(pidOutput) >= pidProfile()->pidSumLimit
OutputSaturated(pidOutput) == Abs(pidOutput) >= pidSumLimit

\* mutant of DecreasedGain: the floor is tested before the gain is lowered
DecreasedGainClampedFirst(gainD) ==
    FDiv(FMul(IF FLess(gainD, IntToFloat(AUTOTUNE_FIXED_WING_MIN_FF))
              THEN IntToFloat(AUTOTUNE_FIXED_WING_MIN_FF) ELSE gainD,
              IntToFloat(100 - AUTOTUNE_FIXED_WING_DECREASE_STEP)),
         IntToFloat(100))

\* lines 174-177
DecreasedGain(gainD) ==
    LET g == FDiv(FMul(gainD, IntToFloat(100 - AUTOTUNE_FIXED_WING_DECREASE_STEP)),
                  IntToFloat(100))
    IN  IF FLess(g, IntToFloat(AUTOTUNE_FIXED_WING_MIN_FF))
        THEN IntToFloat(AUTOTUNE_FIXED_WING_MIN_FF) ELSE g

\* mutant of IncreasedGain: the ceiling is not applied
IncreasedGainUnclamped(gainD) ==
    FDiv(FMul(gainD, IntToFloat(100 + AUTOTUNE_FIXED_WING_INCREASE_STEP)), IntToFloat(100))

\* lines 183-186
IncreasedGain(gainD) ==
    LET g == FDiv(FMul(gainD, IntToFloat(100 + AUTOTUNE_FIXED_WING_INCREASE_STEP)),
                  IntToFloat(100))
    IN  IF FLess(IntToFloat(AUTOTUNE_FIXED_WING_MAX_FF), g)
        THEN IntToFloat(AUTOTUNE_FIXED_WING_MAX_FF) ELSE g

\* mutant of StateTimeMs: the difference of the two readings without the wrap
StateTimeMsNoWrap(currentTimeMs, stateEnterTime) == currentTimeMs - stateEnterTime

\* const timeDelta_t stateTimeMs = currentTimeMs - tuneCurrent[axis].stateEnterTime
StateTimeMs(currentTimeMs, stateEnterTime) == TimeSub(currentTimeMs, stateEnterTime)

\* mutant of OvershootActs: the dwell floor of the undershoot is used
OvershootActsLate(stateTimeMs) == stateTimeMs >= AUTOTUNE_FIXED_WING_UNDERSHOOT_TIME

\* the condition of line 173
OvershootActs(stateTimeMs) == stateTimeMs >= AUTOTUNE_FIXED_WING_OVERSHOOT_TIME

\* mutant of UndershootActs: the dwell floor is not tested
UndershootActsNoDwell(stateTimeMs, pidSaturated) == ~pidSaturated

\* the condition of line 182
UndershootActs(stateTimeMs, pidSaturated) ==
    stateTimeMs >= AUTOTUNE_FIXED_WING_UNDERSHOOT_TIME /\ ~pidSaturated

\* the switch of lines 169-190 on the state being left: gainsUpdated
GainsUpdated(data, stateTimeMs) ==
    CASE data.state = DEMAND_TOO_LOW -> FALSE
      [] data.state = DEMAND_OVERSHOOT -> OvershootActs(stateTimeMs)
      [] data.state = DEMAND_UNDERSHOOT -> UndershootActs(stateTimeMs, data.pidSaturated)

\* the switch of lines 169-190: gainD when gainsUpdated
SteppedGain(data) ==
    IF data.state = DEMAND_OVERSHOOT THEN DecreasedGain(data.gainD)
    ELSE IncreasedGain(data.gainD)

\* mutant of DerivedGainP: 0.01f for 0.1f
DerivedGainPWrongRatio(gainD) == FMul(gainD, FDiv(IntToFloat(1), IntToFloat(100)))

\* line 194
DerivedGainP(gainD) == FMul(gainD, FDiv(IntToFloat(1), IntToFloat(10)))

\* lines 197-198
DerivedGainI(gainD) ==
    constrainf(FMul(FMul(FDiv(gainD, IntToFloat(FP_PID_RATE_FF_MULTIPLIER)), IntToFloat(1)),
                    IntToFloat(FP_PID_RATE_I_MULTIPLIER)),
               IntToFloat(1), IntToFloat(50))

\* lines 192-200: the axis entry with the companion gains derived from gainD
WithDerivedGains(data, gainD) ==
    [data EXCEPT !.gainD = gainD, !.gainP = DerivedGainP(gainD), !.gainI = DerivedGainI(gainD)]

\* mutant of SaturationNoted: the flag follows this tick's output
SaturationNotedNotSticky(data, pidOutput) ==
    [data EXCEPT !.pidSaturated = OutputSaturated(pidOutput)]

\* mutant of SaturationNoted: the flag is noted after the regime change was handled,
\* so this tick's output is not seen by the exit
SaturationNotedLate(data, pidOutput) == data

\* lines 149-152: the saturation flag after this tick's output
SaturationNoted(data, pidOutput) ==
    [data EXCEPT !.pidSaturated = data.pidSaturated \/ OutputSaturated(pidOutput)]

\* mutant of StateChanged: the saturation flag is not reset
StateChangedKeepsFlag(data, newState, currentTimeMs) ==
    [data EXCEPT !.state = newState, !.stateEnterTime = currentTimeMs]

\* lines 202-205
StateChanged(data, newState, currentTimeMs) ==
    [data EXCEPT !.state = newState, !.stateEnterTime = currentTimeMs, !.pidSaturated = FALSE]

\* autotuneFixedWingUpdate as a function of what it reads: the tuneCurrent and the live
\* gains it leaves, and whether it pushed gains
LawStep(current, bank, currentTimeMs, axis, desiredRateDps, reachedRateDps, pidOutput) ==
    LET noted == SaturationNoted(current[axis], pidOutput)
        newState == Classify(axis, desiredRateDps, reachedRateDps)
        stateTimeMs == StateTimeMs(currentTimeMs, noted.stateEnterTime)
        gainsUpdated == newState # noted.state /\ GainsUpdated(noted, stateTimeMs)
        stepped == IF gainsUpdated THEN WithDerivedGains(noted, SteppedGain(noted)) ELSE noted
        pushed == [current EXCEPT ![axis] = stepped]
    IN  [tuneCurrent |->
            IF newState # noted.state
            THEN [pushed EXCEPT ![axis] = StateChanged(stepped, newState, currentTimeMs)]
            ELSE pushed,
         pidBank |-> IF gainsUpdated THEN autotuneUpdateGains(pushed) ELSE bank,
         gainsUpdated |-> gainsUpdated,
         newState |-> newState]

\* mutant of autotuneFixedWingUpdate: the changed entry is pushed through tuneSaved
autotuneFixedWingUpdateSaves(r) ==
    /\ tuneCurrent' = r.tuneCurrent
    /\ pidBank' = r.pidBank
    /\ tuneSaved' = [tuneSaved EXCEPT ![FD_ROLL] = r.tuneCurrent[FD_ROLL]]
    /\ UNCHANGED <<lastGainsUpdateTime, AUTO_TUNE>>

\* autotuneFixedWingUpdate, r being LawStep of the state it is called in
autotuneFixedWingUpdate(r) ==
    /\ tuneCurrent' = r.tuneCurrent
    /\ pidBank' = r.pidBank
    /\ UNCHANGED <<tuneSaved, lastGainsUpdateTime, AUTO_TUNE>>

(***************************************************************************)
(* The environment: the clock, the control loop's calls and their inputs.  *)
(* A run is explored within a budget b = [ticks, calls]: the number of     *)
(* clock advances and of per-axis calls it may make.                       *)
(***************************************************************************)
\* the clock never runs a full period within one run
MaxUptime == ClockModulus - 1

\* the clock readings at which a run may begin (autotune never engaged before):
\* shortly before the clock wraps, so that a run has readings on both sides of the wrap
BootClocks == {ClockModulus - 100}

NoCall ==
    [op |-> "init", axis |-> "none", from |-> "none", to |-> "none", dwell |-> 0,
     wasSat |-> FALSE, sat |-> FALSE, changed |-> FALSE,
     desired |-> 0, reached |-> 0, outSat |-> FALSE,
     age |-> 0, gap |-> 0, stale |-> FALSE, wrapped |-> FALSE]

Init ==
    /\ millis \in BootClocks
    /\ AUTO_TUNE = FALSE
    /\ tuneCurrent = [axis \in Axes |-> ZeroData]
    /\ tuneSaved = [axis \in Axes |-> ZeroData]
    /\ lastGainsUpdateTime = 0
    /\ pidBank \in SeedBanks
    /\ uptime = 0
    /\ enterUptime = [axis \in Axes |-> 0]
    /\ commitUptime = 0
    /\ sinceCall = 0
    /\ snapshot = [axis \in Axes |-> ZeroData]
    /\ seedBank = pidBank
    /\ spent = [ticks |-> 0, calls |-> 0, commits |-> 0]
    /\ last = NoCall

\* the clock advances by d ms between two calls
Tick(d, maxTicks) ==
    /\ spent.ticks < maxTicks
    /\ uptime + d <= MaxUptime
    /\ millis' = (millis + d) % ClockModulus
    /\ uptime' = uptime + d
    /\ spent' = [spent EXCEPT !.ticks = @ + 1]
    /\ sinceCall' = sinceCall + d
    /\ last' = [NoCall EXCEPT !.op = "tick"]
    /\ UNCHANGED <<AUTO_TUNE, tuneCurrent, tuneSaved, lastGainsUpdateTime, pidBank,
                   enterUptime, commitUptime, snapshot, seedBank>>

\* which branch of autotuneUpdateState a call takes
BranchOf(box, armed) ==
    IF box /\ armed
    THEN (IF ~AUTO_TUNE THEN "start"
          ELSE IF SaveIsDue(millis, lastGainsUpdateTime) THEN "commit" ELSE "hold")
    ELSE (IF AUTO_TUNE THEN "abort" ELSE "idle")

\* the gains of one axis entry
GainsOf(data) == <<data.gainP, data.gainI, data.gainD>>

\* the control loop calls autotuneUpdateState.  last.age is the true time since
\* lastGainsUpdateTime was written, last.gap the true time since the previous call,
\* last.stale whether tuneCurrent held gains that were not the live gains,
\* last.wrapped whether the clock wrapped since the timestamp the call compares with
UpdateState(box, armed) ==
    LET branch == BranchOf(box, armed)
    IN  /\ autotuneUpdateState(box, armed)
        /\ UNCHANGED millis
        /\ last' = [NoCall EXCEPT !.op = branch,
                                  !.age = uptime - commitUptime, !.gap = sinceCall,
                                  !.wrapped = millis < lastGainsUpdateTime,
                                  !.stale = \E axis \in Axes :
                                      GainsOf(tuneCurrent[axis])
                                          # GainsOf(StartAxis(pidBank[axis], millis))]
        /\ sinceCall' = 0
        /\ commitUptime' = IF branch \in {"start", "commit"} THEN uptime ELSE commitUptime
        /\ snapshot' = IF branch \in {"start", "commit"} THEN tuneCurrent' ELSE snapshot
        /\ seedBank' = IF branch = "start" THEN pidBank ELSE seedBank
        /\ enterUptime' = IF branch = "start" THEN [axis \in Axes |-> uptime] ELSE enterUptime
        /\ spent' = [spent EXCEPT !.commits = IF branch = "start" THEN 0
                                              ELSE IF branch = "commit" THEN @ + 1
                                              ELSE @]
        /\ UNCHANGED uptime

\* the control loop calls autotuneFixedWingUpdate for one axis
FixedWingUpdate(axis, desiredRateDps, reachedRateDps, pidOutput, maxCalls) ==
    /\ spent.calls < maxCalls
    /\ \E r \in {LawStep(tuneCurrent, pidBank, millis, axis,
                         desiredRateDps, reachedRateDps, pidOutput)},
          from \in {tuneCurrent[axis].state} :
        /\ autotuneFixedWingUpdate(r)
        /\ UNCHANGED millis
        /\ last' = [NoCall EXCEPT !.op = "law", !.axis = axis, !.from = from,
                                  !.to = r.newState,
                                  !.dwell = uptime - enterUptime[axis],
                                  !.wrapped = millis < tuneCurrent[axis].stateEnterTime,
                                  !.wasSat = tuneCurrent[axis].pidSaturated,
                                  !.sat = tuneCurrent[axis].pidSaturated
                                          \/ OutputSaturated(pidOutput),
                                  !.changed = r.gainsUpdated,
                                  !.desired = desiredRateDps,
                                  !.reached = reachedRateDps,
                                  !.outSat = OutputSaturated(pidOutput)]
        /\ enterUptime' = IF r.newState # from
                          THEN [enterUptime EXCEPT ![axis] = uptime] ELSE enterUptime
        /\ spent' = [spent EXCEPT !.calls = @ + 1]
        /\ UNCHANGED <<uptime, commitUptime, sinceCall, snapshot, seedBank>>

ClockAdvance(steps, maxTicks) == \E d \in steps : Tick(d, maxTicks)

\* switches: the (BOXAUTOTUNE active, ARMED) pairs a call may observe
SessionCall(switches) == \E sw \in switches : UpdateState(sw[1], sw[2])

\* the rate controller runs the per-axis law only while FLIGHT_MODE(AUTO_TUNE) is set
LawCall(axes, rateSamples, outputSamples, maxCalls) ==
    /\ AUTO_TUNE
    /\ \E axis \in axes, rs \in rateSamples, out \in outputSamples :
           FixedWingUpdate(axis, rs[1], rs[2], out, maxCalls)

\* autotuneFixedWingUpdate called in any state: the function tests no session flag
LawCallAnytime(axes, rateSamples, outputSamples, maxCalls) ==
    \E axis \in axes, rs \in rateSamples, out \in outputSamples :
        FixedWingUpdate(axis, rs[1], rs[2], out, maxCalls)

(***************************************************************************)
(* Spec: the session protocol.  The clock advances by half a checkpoint    *)
(* period at a time; the per-axis law is driven between overshoot and      *)
(* undershoot on roll and pitch.                                           *)
(***************************************************************************)
MaxTicks == 4
MaxLawCalls == 2
TickSteps == {2500}
RateSamples == {<<-120, 130>>, <<120, -100>>}
OutputSamples == {0}
LawAxes == {FD_ROLL, FD_PITCH}

Next ==
    \/ ClockAdvance(TickSteps, MaxTicks)
    \/ SessionCall(BOOLEAN \X BOOLEAN)
    \/ LawCall(LawAxes, RateSamples, OutputSamples, MaxLawCalls)

Spec == Init /\ [][Next]_vars

(***************************************************************************)
(* SpecLaw: the per-axis law within one session (autotune stays requested  *)
(* and the vehicle armed).  The clock advances by one overshoot dwell      *)
(* floor (100 ms); the law is called on roll and yaw with rates of every   *)
(* classification and with outputs below and at the saturation limit.      *)
(***************************************************************************)
LawMaxTicks == 2
LawMaxCalls == 3
LawTickSteps == {AUTOTUNE_FIXED_WING_OVERSHOOT_TIME}
LawRateSamples == {<<50, 40>>, <<-120, 130>>, <<120, -100>>}
LawOutputSamples == {0, 0 - pidSumLimit}
LawSpecAxes == {FD_ROLL, FD_YAW}

NextLaw ==
    \/ ClockAdvance(LawTickSteps, LawMaxTicks)
    \/ SessionCall({<<TRUE, TRUE>>})
    \/ LawCall(LawSpecAxes, LawRateSamples, LawOutputSamples, LawMaxCalls)

SpecLaw == Init /\ [][NextLaw]_vars

(***************************************************************************)
(* SpecWrap: the two timing tests across the wrap of the clock.  A run     *)
(* begins 100 ms before the clock wraps; the clock advances by 100 ms or   *)
(* by 4900 ms, so that the dwell floors and the checkpoint period are met  *)
(* exactly and missed by one step.                                         *)
(***************************************************************************)
WrapMaxTicks == 2
WrapMaxCalls == 2
WrapTickSteps == {AUTOTUNE_FIXED_WING_OVERSHOOT_TIME,
                  AUTOTUNE_SAVE_PERIOD - AUTOTUNE_FIXED_WING_OVERSHOOT_TIME}
WrapRateSamples == {<<-120, 130>>, <<120, -100>>}
WrapAxes == {FD_ROLL, FD_YAW}

NextWrap ==
    \/ ClockAdvance(WrapTickSteps, WrapMaxTicks)
    \/ SessionCall({<<TRUE, TRUE>>})
    \/ LawCall(WrapAxes, WrapRateSamples, OutputSamples, WrapMaxCalls)

SpecWrap == Init /\ [][NextWrap]_vars

(***************************************************************************)
(* SpecFrame: the per-axis law as in SpecLaw, within one dwell floor of    *)
(* the session start.                                                      *)
(***************************************************************************)
FrameMaxTicks == 1
FrameMaxCalls == 3

NextFrame ==
    \/ ClockAdvance(LawTickSteps, FrameMaxTicks)
    \/ SessionCall({<<TRUE, TRUE>>})
    \/ LawCall(LawSpecAxes, LawRateSamples, LawOutputSamples, FrameMaxCalls)

SpecFrame == Init /\ [][NextFrame]_vars

(***************************************************************************)
(* SpecOpen: the entry points called in any state, the per-axis law also   *)
(* while no session is active.                                             *)
(***************************************************************************)
OpenMaxTicks == 2
OpenMaxCalls == 2

NextOpen ==
    \/ ClockAdvance(LawTickSteps, OpenMaxTicks)
    \/ SessionCall(BOOLEAN \X BOOLEAN)
    \/ LawCallAnytime(LawSpecAxes, RateSamples, OutputSamples, OpenMaxCalls)

SpecOpen == Init /\ [][NextOpen]_vars

(***************************************************************************)
(* SpecStep: the gain steps of the per-axis law.  The live gains a session *)
(* is seeded with put gainD at the floor, at the ceiling and at 50 and     *)
(* 190; the clock advances by 150 ms or 250 ms, so that a regime is left   *)
(* between the two dwell floors and after both; the law is called on every *)
(* axis, with a demand of 100 deg/s answered by 120 deg/s among the rates. *)
(***************************************************************************)
StepMaxTicks == 2
StepMaxCalls == 2
StepTickSteps == {150, 250}
StepRateSamples == {<<50, 40>>, <<100, 120>>, <<120, -100>>}
StepBanks ==
    { (FD_ROLL :> Pid(5, 7, 50)) @@ (FD_PITCH :> Pid(5, 7, 10)) @@ (FD_YAW :> Pid(6, 10, 190)),
      (FD_ROLL :> Pid(20, 30, 200)) @@ (FD_PITCH :> Pid(9, 12, 190))
          @@ (FD_YAW :> Pid(6, 10, 50)) }

\* Init with the live gains drawn from StepBanks
StepInit ==
    /\ millis \in BootClocks
    /\ AUTO_TUNE = FALSE
    /\ tuneCurrent = [axis \in Axes |-> ZeroData]
    /\ tuneSaved = [axis \in Axes |-> ZeroData]
    /\ lastGainsUpdateTime = 0
    /\ pidBank \in StepBanks
    /\ uptime = 0
    /\ enterUptime = [axis \in Axes |-> 0]
    /\ commitUptime = 0
    /\ sinceCall = 0
    /\ snapshot = [axis \in Axes |-> ZeroData]
    /\ seedBank = pidBank
    /\ spent = [ticks |-> 0, calls |-> 0, commits |-> 0]
    /\ last = NoCall

NextStep ==
    \/ ClockAdvance(StepTickSteps, StepMaxTicks)
    \/ SessionCall({<<TRUE, TRUE>>})
    \/ LawCall(Axes, StepRateSamples, OutputSamples, StepMaxCalls)

SpecStep == StepInit /\ [][NextStep]_vars

(***************************************************************************)
(* Properties of the session protocol (checked under Spec).                *)
(***************************************************************************)
\* the live gains that hold exactly the integer-rounded gains of a gain set
LiveEquals(data) ==
    \A axis \in Axes :
        /\ pidBank[axis].P = lrintf(data[axis].gainP)
        /\ pidBank[axis].I = lrintf(data[axis].gainI)
        /\ pidBank[axis].D = lrintf(data[axis].gainD)

\* C1: when a call of autotuneUpdateState aborts an active session (it observed autotune
\* not requested or not armed), then on its return the live gains of every axis are the
\* integer-rounded gains of tuneSaved and the session is inactive.
AbortRestoresCheckpoint ==
    last.op = "abort" => (LiveEquals(tuneSaved) /\ ~AUTO_TUNE)

\* C1 witness: an abort after which the live gains are those of tuneSaved although
\* tuneCurrent holds other (never committed) gains.
AbortDiscardsUncommitted ==
    /\ last.op = "abort"
    /\ LiveEquals(tuneSaved)
    /\ ~LiveEquals(tuneCurrent)
    /\ \E axis \in Axes : GainsOf(tuneCurrent[axis]) # GainsOf(tuneSaved[axis])

\* the true age of the checkpoint: the time since lastGainsUpdateTime was written
CheckpointAge == uptime - commitUptime

\* C2: the snapshot an abort restores is tuneCurrent as of the most recent commit or
\* session start, and it is at most one checkpoint period (5000 ms) old at the abort.
AbortWithinOnePeriod ==
    last.op = "abort" =>
        (tuneSaved = snapshot /\ CheckpointAge <= AUTOTUNE_SAVE_PERIOD)

\* C3: while a session is active, tuneSaved as a whole is tuneCurrent as it was at one
\* moment: right after the session start or the most recent commit.
SavedIsOneSnapshot ==
    AUTO_TUNE => tuneSaved = snapshot

\* C3 witness: an active session whose checkpoint was taken by a commit, holds gains the
\* per-axis law changed, and differs from the session's seed on one axis only.
SavedHoldsCommittedChange ==
    /\ AUTO_TUNE
    /\ last.op = "commit"
    /\ tuneSaved = snapshot
    /\ \E axis \in Axes : tuneSaved[axis].gainD # IntToFloat(seedBank[axis].D)
    /\ \E axis \in Axes : tuneSaved[axis].gainD = IntToFloat(seedBank[axis].D)

\* the gain set of the latest write to the live controller
WroteGains == last.op \in {"commit", "abort"} \/ (last.op = "law" /\ last.changed)
WrittenSet == IF last.op = "law" THEN tuneCurrent ELSE tuneSaved

DInRange(g) ==
    /\ FLessEq(IntToFloat(AUTOTUNE_FIXED_WING_MIN_FF), g)
    /\ FLessEq(g, IntToFloat(AUTOTUNE_FIXED_WING_MAX_FF))

IInRange(g) == FLessEq(IntToFloat(1), g) /\ FLessEq(g, IntToFloat(50))

\* C4 as claimed: every gain set autotune writes to the live controller has, on every
\* axis, gainD within [10, 200] and gainI within [1, 50], whatever the seed was.
WrittenGainsInRange ==
    WroteGains =>
        \A axis \in Axes :
            DInRange(WrittenSet[axis].gainD) /\ IInRange(WrittenSet[axis].gainI)

\* C4 amended: in every gain set autotune writes to the live controller, an axis whose
\* seeded D gain was within [10, 200] has gainD within [10, 200], and an axis whose seeded
\* I gain was within [1, 50] has gainI within [1, 50].
WrittenGainsStayInRange ==
    WroteGains =>
        \A axis \in Axes :
            /\ seedBank[axis].D \in AUTOTUNE_FIXED_WING_MIN_FF..AUTOTUNE_FIXED_WING_MAX_FF
                   => DInRange(WrittenSet[axis].gainD)
            /\ seedBank[axis].I \in 1..50 => IInRange(WrittenSet[axis].gainI)

\* C4 witness: the per-axis law wrote a gain set in which a clamp held gainD at a limit.
WroteClampedGain ==
    /\ last.op = "law" /\ last.changed
    /\ seedBank[last.axis].D \in AUTOTUNE_FIXED_WING_MIN_FF..AUTOTUNE_FIXED_WING_MAX_FF
    /\ tuneCurrent[last.axis].gainD \in {IntToFloat(AUTOTUNE_FIXED_WING_MIN_FF),
                                         IntToFloat(AUTOTUNE_FIXED_WING_MAX_FF)}
    /\ tuneCurrent[last.axis].gainD # IntToFloat(seedBank[last.axis].D)

\* C5: a commit fires only when at least 5000 ms have passed since lastGainsUpdateTime
\* was written (by the session start or the previous commit); it copies tuneCurrent over
\* tuneSaved, applies tuneSaved to the live controller and sets lastGainsUpdateTime to
\* now; a call that does not commit leaves tuneSaved, lastGainsUpdateTime and the live
\* gains as they were.
CommitRateLimitAndEffect ==
    [][ /\ last'.op = "commit" =>
              /\ last'.age >= AUTOTUNE_SAVE_PERIOD
              /\ tuneSaved' = tuneCurrent
              /\ tuneCurrent' = tuneCurrent
              /\ \A axis \in Axes :
                     /\ pidBank'[axis].P = lrintf(tuneCurrent[axis].gainP)
                     /\ pidBank'[axis].I = lrintf(tuneCurrent[axis].gainI)
                     /\ pidBank'[axis].D = lrintf(tuneCurrent[axis].gainD)
              /\ lastGainsUpdateTime' = millis
        /\ last'.op = "hold" =>
              UNCHANGED <<tuneSaved, tuneCurrent, lastGainsUpdateTime, pidBank>> ]_vars

\* C5 witness: a second commit of a session, 5000 ms after the first.
SecondCommit ==
    /\ last.op = "commit"
    /\ last.age = AUTOTUNE_SAVE_PERIOD
    /\ uptime - enterUptime[FD_YAW] = 2 * AUTOTUNE_SAVE_PERIOD

\* C6: a call of autotuneUpdateState that starts a session leaves, on every axis,
\* tuneCurrent and tuneSaved with the live gains, state DEMAND_TOO_LOW, pidSaturated
\* false and stateEnterTime = now, sets lastGainsUpdateTime = now and marks the session
\* active; nothing of an earlier session is left.
StartReseeds ==
    last.op = "start" =>
        /\ AUTO_TUNE
        /\ lastGainsUpdateTime = millis
        /\ tuneSaved = tuneCurrent
        /\ \A axis \in Axes :
               tuneCurrent[axis] =
                   [state |-> DEMAND_TOO_LOW, stateEnterTime |-> millis,
                    pidSaturated |-> FALSE,
                    gainP |-> IntToFloat(pidBank[axis].P),
                    gainI |-> IntToFloat(pidBank[axis].I),
                    gainD |-> IntToFloat(pidBank[axis].D)]

\* C6 witness: a session start that overwrote the gains and regimes an earlier session
\* had left in tuneCurrent.
StartOverResidue ==
    /\ last.op = "start"
    /\ last.stale
    /\ spent.calls > 0
    /\ \A axis \in Axes : tuneCurrent[axis].state = DEMAND_TOO_LOW
    /\ LiveEquals(tuneCurrent)

(***************************************************************************)
(* Properties of the per-axis law (checked under SpecLaw and SpecWrap).    *)
(***************************************************************************)
\* a call of the per-axis law that left the regime `from`
Exited(call, from) == call.op = "law" /\ call.from = from /\ call.to # call.from

\* the gains of every axis of tuneCurrent and the live gains stay as they are
GainsUntouched ==
    /\ \A axis \in Axes : GainsOf(tuneCurrent'[axis]) = GainsOf(tuneCurrent[axis])
    /\ pidBank' = pidBank

\* C7: a per-axis update that does not leave Overshoot 100 ms or more after it was
\* entered, nor Undershoot 200 ms or more after it was entered, changes no gain of
\* tuneCurrent and pushes nothing to the live controller; so no gain changes over any
\* sequence of updates whose regime exits are all faster than the dwell floors.
DwellDamping ==
    [][ ( /\ last'.op = "law"
          /\ ~(Exited(last', DEMAND_OVERSHOOT)
                 /\ last'.dwell >= AUTOTUNE_FIXED_WING_OVERSHOOT_TIME)
          /\ ~(Exited(last', DEMAND_UNDERSHOOT)
                 /\ last'.dwell >= AUTOTUNE_FIXED_WING_UNDERSHOOT_TIME) )
        => GainsUntouched ]_vars

\* C7 witness: the third update of a run leaves an unsaturated Undershoot 100 ms after
\* it was entered, and tuneCurrent still holds the gains the session was seeded with.
FastExitsChangeNothing ==
    /\ Exited(last, DEMAND_UNDERSHOOT)
    /\ last.dwell = AUTOTUNE_FIXED_WING_OVERSHOOT_TIME
    /\ ~last.sat
    /\ spent.calls = 3
    /\ \A axis \in Axes : GainsOf(tuneCurrent[axis]) = GainsOf(snapshot[axis])
    /\ pidBank = seedBank

\* C8: when an axis leaves Undershoot with its saturation flag set, the flag of this
\* very tick's output included, the gains of that axis are not changed, whatever the
\* dwell.
SaturationGuard ==
    [][ (Exited(last', DEMAND_UNDERSHOOT) /\ last'.sat)
        => GainsOf(tuneCurrent'[last'.axis]) = GainsOf(tuneCurrent[last'.axis]) ]_vars

\* C8 witness: Undershoot is left 200 ms or more after it was entered, the output
\* reached the saturation limit on the tick of the exit only, and no gain was changed.
SaturatedOnExitTick ==
    /\ Exited(last, DEMAND_UNDERSHOOT)
    /\ last.dwell >= AUTOTUNE_FIXED_WING_UNDERSHOOT_TIME
    /\ last.sat /\ ~last.wasSat
    /\ ~last.changed
    /\ tuneCurrent[last.axis].gainD = IntToFloat(seedBank[last.axis].D)

TenTimes(p, d) ==
    /\ d.e - p.e \in 0..4
    /\ 10 * p.m = d.m * 2^(d.e - p.e)

\* |10 * p - d| <= d * 2^-23, for floats p and d: p is 10% of d up to the rounding of
\* single-precision arithmetic
TenTimesRounded(p, d) ==
    /\ d.e - p.e \in 0..4
    /\ Abs(10 * p.m - d.m * 2^(d.e - p.e)) <= (d.m * 2^(d.e - p.e)) \div TwoTo23

\* the I gain the claim derives from gainD, in single precision
ClaimedGainI(gainD) ==
    constrainf(FMul(FDiv(gainD, IntToFloat(FP_PID_RATE_FF_MULTIPLIER)),
                    IntToFloat(FP_PID_RATE_I_MULTIPLIER)),
               IntToFloat(1), IntToFloat(50))

\* a per-axis update changed gainD of its axis
GainDChanged ==
    last'.op = "law" /\ tuneCurrent'[last'.axis].gainD # tuneCurrent[last'.axis].gainD

\* the gains of the axes the update was not called for stay as they are
OtherAxesKept ==
    \A axis \in Axes \ {last'.axis} : GainsOf(tuneCurrent'[axis]) = GainsOf(tuneCurrent[axis])

\* C10 as stated: after every per-axis update that changed gainD of an axis, gainP of
\* that axis is exactly 10% of the new gainD, gainI is gainD / FF multiplier * I
\* multiplier clamped into [1, 50], and the other axes' gains are not re-derived.
DerivedExactly ==
    [][ GainDChanged =>
            /\ TenTimes(tuneCurrent'[last'.axis].gainP, tuneCurrent'[last'.axis].gainD)
            /\ tuneCurrent'[last'.axis].gainI = ClaimedGainI(tuneCurrent'[last'.axis].gainD)
            /\ OtherAxesKept ]_vars

\* C10 amended: after every per-axis update that changed gainD of an axis, gainP of that
\* axis is 10% of the new gainD up to the rounding of single-precision arithmetic
\* (within gainD * 2^-23 of a tenth of gainD times ten), gainI is the single-precision
\* gainD / FF multiplier * I multiplier clamped into [1, 50], and the other axes' gains
\* are not re-derived.
DerivedWithinRounding ==
    [][ GainDChanged =>
            /\ TenTimesRounded(tuneCurrent'[last'.axis].gainP, tuneCurrent'[last'.axis].gainD)
            /\ tuneCurrent'[last'.axis].gainI = ClaimedGainI(tuneCurrent'[last'.axis].gainD)
            /\ OtherAxesKept ]_vars

\* C10 witness: an update changed gainD, and the derived gainP is not exactly a tenth
\* of it while another axis holds gains of its own.
DerivedInexact ==
    /\ last.op = "law" /\ last.changed
    /\ tuneCurrent[last.axis].gainD # snapshot[last.axis].gainD
    /\ ~TenTimes(tuneCurrent[last.axis].gainP, tuneCurrent[last.axis].gainD)
    /\ TenTimesRounded(tuneCurrent[last.axis].gainP, tuneCurrent[last.axis].gainD)
    /\ \E axis \in Axes \ {last.axis} :
           ~TenTimesRounded(tuneCurrent[axis].gainP, tuneCurrent[axis].gainD)

\* tuneCurrent with the regime timer and the saturation flag of every axis but `axis`
\* replaced by other values
OthersScrambled(axis) ==
    [b \in Axes |->
        IF b = axis THEN tuneCurrent[b]
        ELSE [tuneCurrent[b] EXCEPT !.stateEnterTime = (@ + 1000) % ClockModulus,
                                    !.pidSaturated = ~@]]

\* an output that is at the saturation limit exactly when the call's output was
OutputLike(call) == IF call.outSat THEN pidSumLimit ELSE 0

\* C15: a call of autotuneFixedWingUpdate for an axis leaves tuneSaved,
\* lastGainsUpdateTime, the session flag and the tuneCurrent entries of the other axes
\* unchanged, and what it does to its own entry and to the live gains is what it would
\* do with any other regimeEnteredAt and saturated flag on the other axes.
PerAxisFrame ==
    [][ last'.op = "law" =>
           /\ UNCHANGED <<tuneSaved, lastGainsUpdateTime, AUTO_TUNE>>
           /\ \A axis \in Axes \ {last'.axis} : tuneCurrent'[axis] = tuneCurrent[axis]
           /\ LET r == LawStep(OthersScrambled(last'.axis), pidBank, millis, last'.axis,
                               last'.desired, last'.reached, OutputLike(last'))
              IN  /\ r.tuneCurrent[last'.axis] = tuneCurrent'[last'.axis]
                  /\ r.pidBank = pidBank' ]_vars

\* C15 witness: an update changed the gains of its axis and pushed them, while another
\* axis has its saturation flag set and a regime timer of its own, and tuneSaved still
\* holds the gains the session was seeded with.
UpdateBesideSaturatedAxis ==
    /\ last.op = "law" /\ last.changed
    /\ \E axis \in Axes \ {last.axis} :
           /\ tuneCurrent[axis].pidSaturated
           /\ tuneCurrent[axis].stateEnterTime # tuneCurrent[last.axis].stateEnterTime
    /\ tuneSaved[last.axis].gainD # tuneCurrent[last.axis].gainD
    /\ tuneSaved = snapshot

\* C16: a per-axis update whose classification differs from the stored regime ends with
\* the regime being the new classification, regimeEnteredAt = now and saturated = false,
\* whether or not a gain changed; an update whose classification is the stored regime
\* changes nothing but, possibly, saturated to true: the regime, regimeEnteredAt, the
\* gains and the live gains stay as they are.
RegimeBookkeeping ==
    [][ last'.op = "law" =>
            IF last'.to # last'.from
            THEN /\ tuneCurrent'[last'.axis].state = last'.to
                 /\ tuneCurrent'[last'.axis].stateEnterTime = millis
                 /\ ~tuneCurrent'[last'.axis].pidSaturated
            ELSE /\ tuneCurrent'[last'.axis] =
                        [tuneCurrent[last'.axis] EXCEPT !.pidSaturated = @ \/ last'.outSat]
                 /\ pidBank' = pidBank ]_vars

\* C16 witness: a saturated Undershoot was left 200 ms after it was entered, no gain
\* was changed, and the axis is in its new regime with the timer at now and the flag
\* reset.
RegimeChangedWithoutGainChange ==
    /\ Exited(last, DEMAND_UNDERSHOOT)
    /\ last.dwell = AUTOTUNE_FIXED_WING_UNDERSHOOT_TIME
    /\ last.wasSat /\ ~last.changed
    /\ tuneCurrent[last.axis].state = last.to
    /\ tuneCurrent[last.axis].stateEnterTime = millis
    /\ ~tuneCurrent[last.axis].pidSaturated

\* a session start, or a per-axis update that changed the regime of `axis`
RegimeReset(call, axis) ==
    call.op = "start" \/ (call.op = "law" /\ call.axis = axis /\ call.to # call.from)

\* C17: once the saturation flag of an axis is set it stays set, also through updates
\* whose output is below the limit, until that axis changes regime or a session starts.
StickySaturation ==
    [][ \A axis \in Axes :
            (tuneCurrent[axis].pidSaturated /\ ~RegimeReset(last', axis))
                => tuneCurrent'[axis].pidSaturated ]_vars

\* C17 witness: an update whose output was below the limit left the regime as it was,
\* 100 ms or more after it was entered, and the flag set by an earlier update is set.
FlagOutlastsSaturation ==
    /\ last.op = "law" /\ last.to = last.from
    /\ last.wasSat /\ ~last.outSat
    /\ last.dwell >= AUTOTUNE_FIXED_WING_OVERSHOOT_TIME
    /\ tuneCurrent[last.axis].pidSaturated

(***************************************************************************)
(* Properties of the gain steps (checked under SpecStep).                  *)
(***************************************************************************)
\* a call of the per-axis law that left the regime `from` and acted on the gains
Qualifying(call, from) == Exited(call, from) /\ call.changed

\* C11: a qualifying Overshoot exit (dwell >= 100 ms) of an axis whose gainD is 10
\* leaves gainD at 10, and a qualifying Undershoot exit (dwell >= 200 ms, not
\* saturated) of an axis whose gainD is 200 leaves gainD at 200; so any number of
\* them does.
ClampIdempotence ==
    [][ /\ ( /\ Qualifying(last', DEMAND_OVERSHOOT)
             /\ tuneCurrent[last'.axis].gainD = IntToFloat(AUTOTUNE_FIXED_WING_MIN_FF) )
           => tuneCurrent'[last'.axis].gainD = IntToFloat(AUTOTUNE_FIXED_WING_MIN_FF)
        /\ ( /\ Qualifying(last', DEMAND_UNDERSHOOT)
             /\ tuneCurrent[last'.axis].gainD = IntToFloat(AUTOTUNE_FIXED_WING_MAX_FF) )
           => tuneCurrent'[last'.axis].gainD = IntToFloat(AUTOTUNE_FIXED_WING_MAX_FF)
      ]_vars

\* C11 witness: an unsaturated Undershoot was left 250 ms after it was entered, by the
\* second update of a session seeded with gainD = 200 on that axis, and gainD is 200,
\* while the companion gains were derived anew.
CeilingHeld ==
    /\ Qualifying(last, DEMAND_UNDERSHOOT)
    /\ last.dwell = 250
    /\ spent.calls = 2
    /\ seedBank[last.axis].D = AUTOTUNE_FIXED_WING_MAX_FF
    /\ tuneCurrent[last.axis].gainD = IntToFloat(AUTOTUNE_FIXED_WING_MAX_FF)
    /\ tuneCurrent[last.axis].gainI # snapshot[last.axis].gainI

\* scenario A: an update with desired rate 100 deg/s and achieved rate 120 deg/s on an
\* axis whose maximum desired rate is 150 deg/s
ScenarioA(call) ==
    /\ call.op = "law"
    /\ call.desired = 100 /\ call.reached = 120
    /\ maxDesiredRate(call.axis) = IntToFloat(150)

\* C12 as stated: scenario A classifies the response as Overshoot.
ScenarioAIsOvershoot == ScenarioA(last) => last.to = DEMAND_OVERSHOOT

\* C12 amended: scenario A classifies the response as TooLow: the demand of 100 deg/s
\* is below 75% of the maximum desired rate of 150 deg/s, which is 112.5 deg/s.
ScenarioAIsTooLow == ScenarioA(last) => last.to = DEMAND_TOO_LOW

\* C12 witness: scenario A happened on an axis that was in Undershoot, and the axis is
\* in TooLow, although the achieved rate is above the desired rate.
ScenarioAFromUndershoot ==
    /\ ScenarioA(last)
    /\ last.from = DEMAND_UNDERSHOOT
    /\ tuneCurrent[last.axis].state = DEMAND_TOO_LOW
    /\ last.reached > last.desired

\* |a * new - b * old| <= b * old * 2^-23, for floats new and old of neighbouring
\* exponents: new is b/a of old up to the rounding of single-precision arithmetic
RatioRounded(a, new, b, old) ==
    /\ new.e - old.e \in {-1, 0, 1}
    /\ LET e0 == Min(new.e, old.e)
           n == a * new.m * 2^(new.e - e0)
           o == b * old.m * 2^(old.e - e0)
       IN  Abs(n - o) <= o \div TwoTo23

\* old * 0.92 < 10 and old * 1.05 > 200, for a float old below 2^24
LoweredBelowFloor(old) == old.e < -23 \/ 23 * old.m < 250 * 2^(0 - old.e)
RaisedAboveCeiling(old) == old.e >= -17 /\ 21 * old.m > 4000 * 2^(0 - old.e)

\* new = max(10, old * 0.92) and new = min(200, old * 1.05), up to rounding
SteppedDown(old, new) ==
    IF LoweredBelowFloor(old) THEN new = IntToFloat(AUTOTUNE_FIXED_WING_MIN_FF)
    ELSE RatioRounded(25, new, 23, old)
SteppedUp(old, new) ==
    IF RaisedAboveCeiling(old) THEN new = IntToFloat(AUTOTUNE_FIXED_WING_MAX_FF)
    ELSE RatioRounded(20, new, 21, old)

\* C14: the gain action of a regime change depends on the regime left only: leaving
\* TooLow changes no gain; leaving Overshoot 100 ms or more after it was entered sets
\* gainD to max(10, gainD * 0.92), whatever the regime entered; leaving an unsaturated
\* Undershoot 200 ms or more after it was entered sets gainD to min(200, gainD * 1.05)
\* (each up to single-precision rounding).  gainD 50 left after 150 ms of Overshoot
\* becomes 46 with gainP 4.6f, gainD 190 after 250 ms of unsaturated Undershoot 199.5.
GainStepLaw ==
    [][ /\ Exited(last', DEMAND_TOO_LOW)
               => GainsOf(tuneCurrent'[last'.axis]) = GainsOf(tuneCurrent[last'.axis])
        /\ (Exited(last', DEMAND_OVERSHOOT)
                /\ last'.dwell >= AUTOTUNE_FIXED_WING_OVERSHOOT_TIME)
               => /\ SteppedDown(tuneCurrent[last'.axis].gainD, tuneCurrent'[last'.axis].gainD)
                  /\ (tuneCurrent[last'.axis].gainD = IntToFloat(50) /\ last'.dwell = 150)
                         => /\ tuneCurrent'[last'.axis].gainD = IntToFloat(46)
                            /\ tuneCurrent'[last'.axis].gainP
                                   = FDiv(IntToFloat(46), IntToFloat(10))
        /\ (Exited(last', DEMAND_UNDERSHOOT) /\ ~last'.sat
                /\ last'.dwell >= AUTOTUNE_FIXED_WING_UNDERSHOOT_TIME)
               => /\ SteppedUp(tuneCurrent[last'.axis].gainD, tuneCurrent'[last'.axis].gainD)
                  /\ (tuneCurrent[last'.axis].gainD = IntToFloat(190) /\ last'.dwell = 250)
                         => tuneCurrent'[last'.axis].gainD
                                = FDiv(IntToFloat(399), IntToFloat(2)) ]_vars

\* C14 witness: Overshoot was left for TooLow 150 ms after it was entered, by the second
\* update of a session seeded with gainD = 50 on that axis, and gainD is 46.
OvershootLeftForTooLow ==
    /\ Exited(last, DEMAND_OVERSHOOT)
    /\ last.to = DEMAND_TOO_LOW
    /\ last.dwell = 150
    /\ spent.calls = 2
    /\ seedBank[last.axis].D = 50
    /\ tuneCurrent[last.axis].gainD = IntToFloat(46)

(***************************************************************************)
(* Further properties of the session protocol (checked under Spec).        *)
(***************************************************************************)
\* the calls of autotuneUpdateState that observed autotune requested and armed, and
\* those that did not
RequestedOps == {"start", "commit", "hold"}
RefusedOps == {"abort", "idle"}

\* C13: a call of autotuneUpdateState that directly follows another one, at the same
\* clock value and with the same observation of the mode switch and the armed state,
\* changes nothing: not the session flag, tuneCurrent, tuneSaved, lastGainsUpdateTime
\* or the live gains; it neither starts a session again nor commits again.
SessionUpdateIdempotent ==
    [][ /\ (last.op \in RequestedOps /\ last'.op \in RequestedOps)
               => (UNCHANGED prog /\ last'.op = "hold")
        /\ (last.op \in RefusedOps /\ last'.op \in RefusedOps)
               => (UNCHANGED prog /\ last'.op = "idle") ]_vars

\* C13 witness: a call that did not commit, at the clock value at which the call before
\* it committed gains the per-axis law had changed.
CallAfterCommit ==
    /\ last.op = "hold"
    /\ last.gap = 0 /\ last.age = 0
    /\ spent.commits > 0
    /\ \E axis \in Axes : tuneSaved[axis].gainD # IntToFloat(seedBank[axis].D)

\* C18: while a session is active the live gains of every axis are the integer-rounded
\* gains of tuneCurrent; so the push of a commit never changes the live gains, and the
\* only step after which the live gains are no longer those of tuneCurrent is an abort.
LiveTracksWorking ==
    [][ /\ AUTO_TUNE' => LiveEquals(tuneCurrent)'
        /\ last'.op = "commit" => pidBank' = pidBank
        /\ (LiveEquals(tuneCurrent) /\ ~LiveEquals(tuneCurrent)') => last'.op = "abort"
      ]_vars

\* C18 witness: a commit in a session whose live gains are the rounded gains of a
\* tuneCurrent the per-axis law changed, one of them not a whole number.
CommitOfLiveGains ==
    /\ last.op = "commit" /\ AUTO_TUNE
    /\ LiveEquals(tuneCurrent)
    /\ pidBank # seedBank
    /\ \E axis \in Axes : tuneCurrent[axis].gainP # IntToFloat(pidBank[axis].P)

\* C19: when a session is aborted before any commit of it has fired, the live gains of
\* every axis after the abort are the live gains read at the session start, whatever
\* gain changes the per-axis law made during the session.
EarlyAbortRestoresSeed ==
    (last.op = "abort" /\ spent.commits = 0) => pidBank = seedBank

\* C19 witness: an abort before the first commit, of a session in which the per-axis law
\* had changed gains.
EarlyAbortAfterGainChange ==
    /\ last.op = "abort" /\ spent.commits = 0
    /\ pidBank = seedBank
    /\ ~LiveEquals(tuneCurrent)
    /\ last.age < AUTOTUNE_SAVE_PERIOD

\* C20: while no session is active no entry point writes the live gains, under any
\* sequence of autotuneUpdateState and autotuneFixedWingUpdate calls made in the
\* inactive state; after an abort the live gains stay those restored.
NoWritesWhileInactive ==
    [][ ~AUTO_TUNE => pidBank' = pidBank ]_vars

=============================================================================
